---------------------------- MODULE Spec2Model ----------------------------
(***************************************************************************)
(* Model of src/data/databento_stream.py: the Databento stream bridge.     *)
(*                                                                         *)
(* One process, one thread.  The main flow runs run_live_stream or         *)
(* run_historical; handle_sigterm runs on the same stack, either between   *)
(* two statements of whatever is running, or inside a write to stdout that *)
(* the pipe made wait (the interpreter runs pending handlers when write(2) *)
(* is interrupted).  stdout is a buffered writer over a pipe: print puts   *)
(* the text and the newline in the buffer and flush writes the buffer to   *)
(* the pipe; the writer refuses a call made while it is already writing    *)
(* (RuntimeError: reentrant call), and whatever is left in the buffer is   *)
(* flushed once more when the interpreter exits.                           *)
(***************************************************************************)
EXTENDS Integers, Sequences, FiniteSets, TLC

(* ------------------------------ bounds --------------------------------- *)

\* records the provider delivers in one run (live feed or historical range)
MaxRecords == 3

\* interrupt / termination signals delivered in one run
MaxSignals == 2

\* the timestamps format_timestamp is called on by itself: the quarters of a
\* microsecond up to MaxTick, besides the named ones
MaxTick == 40

\* the number of lines the pipe holds before a write has to wait for the reader
\* (the pipe of the program holds 64 KiB: some five hundred lines)
PipeLines == 3

\* the number of records from which the historical event no longer fits in
\* stdout's buffer (8192 bytes in the program: some sixty records)
BigLine == 2

(* ------------------------- program constants --------------------------- *)

\* price / 1e9, ts_event / 1e9
Scale == 1000000000

\* JSON null, and a value that is present (x if cond else None)
NULL == [null |-> TRUE]
Some(x) == [val |-> x]

(* --------------------------- Python values ----------------------------- *)

\* A Python int in limbs of 10^9: sign * (hi * 10^18 + mid * 10^9 + lo).  A
\* timestamp in nanoseconds is hi * 10^9 + mid seconds and lo nanoseconds.
PyInt(sign, hi, mid, lo) == [sign |-> sign, hi |-> hi, mid |-> mid, lo |-> lo]

\* the int n, 0 <= n < 2^31
Ns(n) == PyInt(1, 0, n \div Scale, n % Scale)

\* a value of any other type, by what str() makes of it
PyObj(s) == [str |-> s]

\* isinstance(v, int)
IsInt(v) == "sign" \in DOMAIN v

(* ------------------------- provider records ---------------------------- *)

\* A record is its type name and its attributes; hasattr(r, a) is a \in DOMAIN f.
Rec(tag, f) == [tag |-> tag, f |-> f]

TradeFull == Rec("TradeMsg", [ts_event |-> Ns(1700), price |-> 1500000000, size |-> 2,
                              action |-> "T", side |-> "B"])
TradeBare == Rec("TradeMsg", [ts_event |-> Ns(2600), price |-> 250000000, size |-> 1])
TradeNoPrice == Rec("TradeMsg", [ts_event |-> Ns(1700), size |-> 2, action |-> "T", side |-> "B"])
BarFull == Rec("OHLCVMsg", [ts_event |-> Ns(3000), open |-> 1000000000, high |-> 2000000000,
                            low |-> 500000000, close |-> 1500000000, volume |-> 7])
BarNoVolume == Rec("OHLCVMsg", [ts_event |-> Ns(3000), open |-> 1000000000, high |-> 2000000000,
                                low |-> 500000000, close |-> 1500000000])
QuoteEmpty == Rec("MBP1Msg", [ts_event |-> Ns(1700), levels |-> <<>>])
QuotePartial == Rec("MBP1Msg", [ts_event |-> Ns(1700),
                                levels |-> <<[ask_px |-> 1500000000, bid_sz |-> 3],
                                             [bid_px |-> 1000000000, ask_px |-> 2000000000,
                                              bid_sz |-> 5, ask_sz |-> 6]>>])
QuoteDepth == Rec("MBP10Msg", [ts_event |-> Ns(1700),
                               levels |-> <<[bid_px |-> 1000000000, ask_px |-> 1500000000,
                                             bid_sz |-> 3, ask_sz |-> 4]>>])
ErrorWith == Rec("ErrorMsg", [err |-> "gateway"])
ErrorBare == Rec("ErrorMsg", [code |-> 1])
SystemWith == Rec("SystemMsg", [msg |-> "heartbeat interval"])
Heartbeat == Rec("SymbolMappingMsg", [ts_event |-> Ns(1700)])

\* args.schema, and the records a subscription (or a range query) of that schema
\* may deliver: its data records and the gateway's control records
Schemas == {"trades", "ohlcv-1m", "mbp-1", "mbp-10"}

Deliverable(schema) ==
    CASE schema = "trades" -> {TradeFull, TradeBare, TradeNoPrice}
      [] schema = "ohlcv-1m" -> {BarFull, BarNoVolume, Heartbeat}
      [] schema = "mbp-1" -> {QuoteEmpty, QuotePartial, ErrorWith}
      [] schema = "mbp-10" -> {QuoteDepth, ErrorBare, SystemWith}

(* --------------------------- format_timestamp -------------------------- *)

\* the seconds datetime can hold: years 1 to 9999 (MINYEAR, MAXYEAR), as the
\* limbs <<hi, mid>> of the seconds before and after the epoch
MinYearSeconds == <<62, 135596800>>
MaxYearSeconds == <<253, 402300799>>

\* <<a, b>> > <<c, d>> as numbers a * 10^9 + b
Above(x, y) == x[1] > y[1] \/ (x[1] = y[1] /\ x[2] > y[2])

\* round(ns / 1000), halves to the even neighbour, as fromtimestamp rounds
RoundHalfEven(ns) ==
    LET q == ns \div 1000
        r == ns % 1000 IN
    IF r > 500 \/ (r = 500 /\ q % 2 = 1) THEN q + 1 ELSE q

\* the string of an instant: its whole seconds and microseconds from the epoch
\* (sign * (sec + usec / 10^6)), and the offset marker isoformat() appends
IsoString(sign, sec, usec) == [sign |-> sign, sec |-> sec, usec |-> usec, offset |-> "+00:00"]

\* what a call makes of an exception
Raised(msg) == [raise |-> msg]
Raises(r) == "raise" \in DOMAIN r

\* isinstance(ts_event, int): seconds = ts / 1e9, a datetime (microsecond
\* resolution) in UTC, which raises when the year is out of range, then
\* isoformat() with "+00:00"; anything else: str(ts).  The quotient is taken
\* exactly here: the double the program computes differs from it by less than
\* the rounding step for the timestamps of this model.  The messages are those
\* of the first years out of range.
format_timestamp(ts_event) ==
    IF IsInt(ts_event)
    THEN LET micros == RoundHalfEven(ts_event.lo)
             carry == IF micros = 1000000 THEN 1 ELSE 0
             usec == IF micros = 1000000 THEN 0 ELSE micros
             mid == (ts_event.mid + carry) % Scale
             hi == ts_event.hi + ((ts_event.mid + carry) \div Scale)
             zero == hi = 0 /\ mid = 0 /\ usec = 0
             sign == IF zero THEN 1 ELSE ts_event.sign IN
         IF sign = 1 /\ Above(<<hi, mid>>, MaxYearSeconds)
         THEN Raised("year 10000 is out of range")
         ELSE IF sign = -1 /\ (Above(<<hi, mid>>, MinYearSeconds)
                                \/ (<<hi, mid>> = MinYearSeconds /\ usec > 0))
         THEN Raised("year 0 is out of range")
         ELSE IsoString(sign, <<hi, mid>>, usec)
    ELSE [text |-> ts_event.str]

\* x / 1e9 of a fixed-point integer
Rescale(x) == [int |-> x \div Scale, frac |-> x % Scale]

(* ------------------------------ mapping -------------------------------- *)

Symbol == "MES.FUT"

Ok(ev) == [ok |-> TRUE, ev |-> ev]
Nothing == [ok |-> TRUE]
Fault(msg) == [ok |-> FALSE, exc |-> msg]

\* the first attribute of names (in evaluation order) the record lacks
Missing(f, names) == SelectSeq(names, LAMBDA n : n \notin DOMAIN f)

AttributeError(tag, names) ==
    "'" \o tag \o "' object has no attribute '" \o Head(names) \o "'"

Opt(f, a) == IF a \in DOMAIN f THEN Some(f[a]) ELSE NULL
OptPx(f, a) == IF a \in DOMAIN f THEN Some(Rescale(f[a])) ELSE NULL

\* Evaluating a dict literal: "ts": format_timestamp(record.ts_event) first,
\* then the attributes of names in order; the first that fails raises.
FirstFault(record, names) ==
    IF "ts_event" \notin DOMAIN record.f
    THEN Fault(AttributeError(record.tag, <<"ts_event">>))
    ELSE IF Raises(format_timestamp(record.f.ts_event))
    THEN Fault(format_timestamp(record.f.ts_event).raise)
    ELSE IF Missing(record.f, names) # <<>>
    THEN Fault(AttributeError(record.tag, Missing(record.f, names)))
    ELSE Nothing

\* lines 76-84 with action and side read like price and size
MapTradeStrict(record) ==
    LET f == record.f
        x == FirstFault(record, <<"price", "size", "action", "side">>) IN
    IF x # Nothing THEN x
    ELSE Ok([type |-> "trade", ts |-> format_timestamp(f.ts_event),
             price |-> Rescale(f.price), size |-> f.size, symbol |-> Symbol,
             action |-> Some(f.action), side |-> Some(f.side)])

\* lines 76-84: the trade event
MapTrade(record) ==
    LET f == record.f
        x == FirstFault(record, <<"price", "size">>) IN
    IF x # Nothing THEN x
    ELSE Ok([type |-> "trade", ts |-> format_timestamp(f.ts_event),
             price |-> Rescale(f.price), size |-> f.size, symbol |-> Symbol,
             action |-> Opt(f, "action"), side |-> Opt(f, "side")])

\* lines 87-96: the ohlcv event
MapBar(record) ==
    LET f == record.f
        x == FirstFault(record, <<"open", "high", "low", "close", "volume">>) IN
    IF x # Nothing THEN x
    ELSE Ok([type |-> "ohlcv", ts |-> format_timestamp(f.ts_event),
             open |-> Rescale(f.open), high |-> Rescale(f.high),
             low |-> Rescale(f.low), close |-> Rescale(f.close),
             volume |-> f.volume, symbol |-> Symbol])

\* lines 100-110 reading the last level of the book
MapQuoteLastLevel(record) ==
    LET f == record.f IN
    IF "levels" \notin DOMAIN f THEN Fault(AttributeError(record.tag, <<"levels">>))
    ELSE IF Len(f.levels) = 0 THEN Nothing
    ELSE LET level == f.levels[Len(f.levels)]
             x == FirstFault(record, <<>>) IN
         IF x # Nothing THEN x
         ELSE Ok([type |-> "quote", ts |-> format_timestamp(f.ts_event),
                  bid |-> OptPx(level, "bid_px"), ask |-> OptPx(level, "ask_px"),
                  bid_size |-> Opt(level, "bid_sz"), ask_size |-> Opt(level, "ask_sz"),
                  symbol |-> Symbol])

\* lines 100-110: the quote event of level zero, none when there is no level
MapQuote(record) ==
    LET f == record.f IN
    IF "levels" \notin DOMAIN f THEN Fault(AttributeError(record.tag, <<"levels">>))
    ELSE IF Len(f.levels) = 0 THEN Nothing
    ELSE LET level == f.levels[1]
             x == FirstFault(record, <<>>) IN
         IF x # Nothing THEN x
         ELSE Ok([type |-> "quote", ts |-> format_timestamp(f.ts_event),
                  bid |-> OptPx(level, "bid_px"), ask |-> OptPx(level, "ask_px"),
                  bid_size |-> Opt(level, "bid_sz"), ask_size |-> Opt(level, "ask_sz"),
                  symbol |-> Symbol])

\* lines 113-116 reading record.err without hasattr
MapErrorMsgNoPlaceholder(record) ==
    IF "err" \in DOMAIN record.f
    THEN Ok([type |-> "error", message |-> record.f.err])
    ELSE Fault(AttributeError(record.tag, <<"err">>))

\* lines 113-116: the provider's error notice
MapErrorMsg(record) ==
    Ok([type |-> "error",
        message |-> IF "err" \in DOMAIN record.f THEN record.f.err ELSE "Unknown error"])

\* lines 119-123: the provider's system notice
MapSystemMsg(record) ==
    Ok([type |-> "status", message |-> "system",
        detail |-> IF "msg" \in DOMAIN record.f THEN record.f.msg ELSE ""])

\* the dispatch with a final else that rejects the record
LiveMapRejectsUnknown(record) ==
    CASE record.tag = "TradeMsg" -> MapTrade(record)
      [] record.tag = "OHLCVMsg" -> MapBar(record)
      [] record.tag = "MBP1Msg" -> MapQuote(record)
      [] record.tag = "ErrorMsg" -> MapErrorMsg(record)
      [] record.tag = "SystemMsg" -> MapSystemMsg(record)
      [] OTHER -> Fault("unknown record type " \o record.tag)

\* the body of the per-record try block up to the call of emit: the event a
\* record maps to, nothing, or the exception building the event raises
LiveMap(record) ==
    CASE record.tag = "TradeMsg" -> MapTrade(record)
      [] record.tag = "OHLCVMsg" -> MapBar(record)
      [] record.tag = "MBP1Msg" -> MapQuote(record)
      [] record.tag = "ErrorMsg" -> MapErrorMsg(record)
      [] record.tag = "SystemMsg" -> MapSystemMsg(record)
      [] OTHER -> Nothing

\* collect_record that knows bars only
HistMapBarsOnly(record) ==
    CASE record.tag = "OHLCVMsg" -> MapBar(record)
      [] OTHER -> Nothing

\* collect_record: what one replayed record appends to records
HistMap(record) ==
    LET f == record.f IN
    CASE record.tag = "OHLCVMsg" -> MapBar(record)
      [] record.tag = "TradeMsg" ->
           LET x == FirstFault(record, <<"price", "size">>) IN
           IF x # Nothing THEN x
           ELSE Ok([type |-> "trade", ts |-> format_timestamp(f.ts_event),
                    price |-> Rescale(f.price), size |-> f.size, symbol |-> Symbol])
      [] OTHER -> Nothing


(* ------------------------------- state --------------------------------- *)

VARIABLES
    mode,       \* args.mode: "live" or "historical"
    schema,     \* args.schema
    pc,         \* the statement the main flow is at ("L71": about to run line 71)
    hs,         \* the handle_sigterm frames on top of the main flow, innermost last
    blocked,    \* the innermost frame is inside emit, in a write(2) the pipe made wait
    err,        \* e of the except clause being run
    feed,       \* the records the provider has delivered so far
    record,     \* the loop variable / the callback's argument
    records,    \* run_historical's list
    buf,        \* stdout's buffer: written by print, not yet accepted by the pipe
    direct,     \* the part of a long line the waiting write hands over unbuffered
    out,        \* what the pipe accepted: the output stream the reader sees
    broken,     \* the reader has closed its end of the pipe
    sigs,       \* the signals delivered so far: where the main flow was, and how
    exitCode,   \* the process's exit status, -1 while it runs
    exitBy,     \* what ended the process, "" while it runs
    iso         \* what a call of format_timestamp on its own has returned

vars == <<mode, schema, pc, hs, blocked, err, feed, record, records, buf, direct, out, broken, sigs,
          exitCode, exitBy, iso>>

NoRecord == Rec("", <<>>)

\* statements that call emit, and the statement that follows each
EmitPcs == {"L32", "L52", "L55", "L67", "L68", "L76", "L128", "L130", "L133",
            "L141", "L144", "L189", "L196"}

\* NextPc of a loop entered without the "streaming" status
NextPcNoStreaming(p) ==
    CASE p = "L32" -> "L33"
      [] p = "L52" -> "L53"
      [] p = "L55" -> "L58"
      [] p = "L67" -> "L71"
      [] p = "L68" -> "L71"
      [] p = "L76" -> "L71"
      [] p = "L128" -> "L71"
      [] p = "L130" -> "L215"
      [] p = "L133" -> "L134"
      [] p = "L141" -> "L142"
      [] p = "L144" -> "L147"
      [] p = "L189" -> "L215"
      [] p = "L196" -> "L197"

NextPc(p) ==
    CASE p = "L32" -> "L33"
      [] p = "L52" -> "L53"
      [] p = "L55" -> "L58"
      [] p = "L67" -> "L68"
      [] p = "L68" -> "L71"
      [] p = "L76" -> "L71"
      [] p = "L128" -> "L71"
      [] p = "L130" -> "L215"
      [] p = "L133" -> "L134"
      [] p = "L141" -> "L142"
      [] p = "L144" -> "L147"
      [] p = "L189" -> "L215"
      [] p = "L196" -> "L197"

\* the statements inside the per-record try block (lines 72-125)
InnerTry == {"L73", "L76"}
\* the other statements inside run_live_stream's try block (lines 57-130)
OuterTry == {"L58", "L60", "L67", "L68", "L71", "L128", "L130"}
\* the statements inside run_historical's try block (lines 146-193)
HistTry == {"L147", "L159", "L161", "L187", "L189"}

Status(m) == [type |-> "status", message |-> m]
StatusCtx(m) == [type |-> "status", message |-> m, symbol |-> Symbol, schema |-> schema]
Error(m) == [type |-> "error", message |-> m]

NotInstalled == "databento package not installed. Run: pip install databento"
RecordPrefix == "Record processing error: "
ShuttingDown == Status("shutting_down")
ReentrantCall == "reentrant call inside <_io.BufferedWriter name='<stdout>'>"

\* EventAt of a run_historical that announces itself as run_live_stream does
EventAtCopied(p) ==
    CASE p = "L32" -> ShuttingDown
      [] p \in {"L52", "L141"} -> Error(NotInstalled)
      [] p = "L55" -> StatusCtx("connecting")
      [] p = "L67" -> StatusCtx("connected")
      [] p = "L68" -> Status("streaming")
      [] p = "L76" -> LiveMap(record).ev
      [] p = "L128" -> Error(RecordPrefix \o err)
      [] p = "L130" -> Status("disconnected")
      [] p \in {"L133", "L196"} -> Error(err)
      [] p = "L144" -> StatusCtx("connecting")
      [] p = "L189" -> [type |-> "historical", count |-> Len(records), records |-> records]

\* the argument of the emit call at statement p
EventAt(p) ==
    CASE p = "L32" -> ShuttingDown
      [] p \in {"L52", "L141"} -> Error(NotInstalled)
      [] p = "L55" -> StatusCtx("connecting")
      [] p = "L67" -> StatusCtx("connected")
      [] p = "L68" -> Status("streaming")
      [] p = "L76" -> LiveMap(record).ev
      [] p = "L128" -> Error(RecordPrefix \o err)
      [] p = "L130" -> Status("disconnected")
      [] p \in {"L133", "L196"} -> Error(err)
      [] p = "L144" -> StatusCtx("fetching_historical")
      [] p = "L189" -> [type |-> "historical", count |-> Len(records), records |-> records]

Cur == IF hs = <<>> THEN pc ELSE hs[Len(hs)]
RecOf(p) == IF p \in {"L76", "L128"} THEN Len(feed) ELSE 0
Running == pc # "exited"

Init ==
    /\ mode \in {"live", "historical"}
    /\ schema \in Schemas
    /\ pc = IF mode = "live" THEN "L50" ELSE "L139"
    /\ hs = <<>>
    /\ blocked = FALSE
    /\ err = ""
    /\ feed = <<>>
    /\ record = NoRecord
    /\ records = <<>>
    /\ buf = <<>>
    /\ direct = <<>>
    /\ out = <<>>
    /\ broken = FALSE
    /\ sigs = <<>>
    /\ exitCode = -1
    /\ exitBy = ""
    /\ iso = NULL

(* ------------------------- control transfers --------------------------- *)

\* what can end the process
Returned == "end of script"
SysExit == "sys.exit(1)"
Handler == "sys.exit(0) in handle_sigterm"
BrokenPipe == "sys.exit(0) in emit"
Uncaught == "uncaught exception"

\* The process ends with status code, b being what stdout's buffer holds: the
\* interpreter flushes stdout once more, and when that flush fails (the pipe is
\* broken and the buffer is not empty) the status becomes 120.
Exit(code, b, why) ==
    /\ pc' = "exited"
    /\ exitBy' = why
    /\ hs' = <<>>
    /\ blocked' = FALSE
    /\ IF broken
       THEN /\ buf' = b
            /\ out' = out
            /\ exitCode' = IF b # <<>> THEN 120 ELSE code
       ELSE /\ buf' = <<>>
            /\ out' = out \o b
            /\ exitCode' = code
    /\ UNCHANGED err

\* the main flow moves on to statement q
Goto(q) ==
    /\ pc' = q
    /\ UNCHANGED <<hs, blocked, err, buf, out, exitCode, exitBy>>

\* Raise that ends the stream on a session-level fault as if the feed had ended
RaiseDisconnects(msg, b) ==
    IF pc \in InnerTry \cup OuterTry \cup HistTry
    THEN /\ pc' = IF pc \in InnerTry THEN "L128"
                  ELSE IF pc \in OuterTry THEN "L130" ELSE "L196"
         /\ err' = msg
         /\ hs' = <<>>
         /\ blocked' = FALSE
         /\ buf' = b
         /\ UNCHANGED <<out, exitCode, exitBy>>
    ELSE Exit(1, b, Uncaught)

\* Raise that hands a historical fault to the emit of the historical event
RaiseEmitsPartial(msg, b) ==
    IF pc \in InnerTry \cup OuterTry \cup HistTry
    THEN /\ pc' = IF pc \in InnerTry THEN "L128"
                  ELSE IF pc \in OuterTry THEN "L133" ELSE "L189"
         /\ err' = msg
         /\ hs' = <<>>
         /\ blocked' = FALSE
         /\ buf' = b
         /\ UNCHANGED <<out, exitCode, exitBy>>
    ELSE Exit(1, b, Uncaught)

\* Raise without the per-record try block: the exception of a record goes to the
\* session-level handler.
RaiseNoInnerTry(msg, b) ==
    IF pc \in InnerTry \cup OuterTry \cup HistTry
    THEN /\ pc' = IF pc \in InnerTry \cup OuterTry THEN "L133" ELSE "L196"
         /\ err' = msg
         /\ hs' = <<>>
         /\ blocked' = FALSE
         /\ buf' = b
         /\ UNCHANGED <<out, exitCode, exitBy>>
    ELSE Exit(1, b, Uncaught)

\* An exception of class Exception reaches the main flow at statement pc (the
\* handler frames above it, which catch nothing, are unwound): the innermost
\* enclosing "except Exception" takes it, or the process dies of it, status 1.
Raise(msg, b) ==
    IF pc \in InnerTry \cup OuterTry \cup HistTry
    THEN /\ pc' = IF pc \in InnerTry THEN "L128"
                  ELSE IF pc \in OuterTry THEN "L133" ELSE "L196"
         /\ err' = msg
         /\ hs' = <<>>
         /\ blocked' = FALSE
         /\ buf' = b
         /\ UNCHANGED <<out, exitCode, exitBy>>
    ELSE Exit(1, b, Uncaught)

(* ------------------------------ emit ----------------------------------- *)

\* A line longer than stdout's buffer is not buffered whole: the writer hands
\* its text to the pipe directly and buffers only the end of it.  Only the
\* historical event grows with the input.
Big(ev) == ev.type = "historical" /\ ev.count >= BigLine

\* A write waits when the pipe has no room for it: the reader has left enough
\* earlier lines unread, or the line is a long one.
MayWait(ev) == Len(SelectSeq(out, LAMBDA c : c.part = "nl")) >= PipeLines \/ Big(ev)

\* print(json.dumps(data)): the text (in two parts when it is long), then the
\* newline.  by is the statement that emitted it and rec the position in the
\* feed of the record it is for.
Chunk(ev, part, by, rec) == [ev |-> ev, part |-> part, by |-> by, rec |-> rec]

Line(ev, by, rec) ==
    (IF Big(ev) THEN <<Chunk(ev, "head", by, rec)>> ELSE <<>>)
    \o <<Chunk(ev, "text", by, rec), Chunk(ev, "nl", by, rec)>>

\* the frame on top moves on to the statement after its emit
Resume ==
    IF hs = <<>>
    THEN pc' = NextPc(pc) /\ hs' = hs
    ELSE pc' = pc /\ hs' = [hs EXCEPT ![Len(hs)] = NextPc(Cur)]

\* emit(data) called by the innermost frame at an emit statement.  print puts the
\* line in the buffer (a long line stays in the writer's hands) and flushes: the
\* pipe takes everything, or the pipe is broken (BrokenPipeError, sys.exit(0)),
\* or the write has to wait.
emit ==
    /\ Running /\ ~blocked /\ Cur \in EmitPcs
    /\ LET ev == EventAt(Cur)
           l == Line(ev, Cur, RecOf(Cur)) IN
       \/ /\ broken
          /\ Exit(0, IF Big(ev) THEN buf ELSE buf \o l, BrokenPipe)
          /\ UNCHANGED direct
       \/ /\ ~broken
          /\ out' = out \o buf \o l
          /\ buf' = <<>>
          /\ Resume
          /\ UNCHANGED <<blocked, err, direct, exitCode, exitBy>>
       \/ /\ ~broken /\ MayWait(ev)
          /\ IF Big(ev) THEN buf' = buf /\ direct' = l
                        ELSE buf' = buf \o l /\ direct' = direct
          /\ blocked' = TRUE
          /\ UNCHANGED <<pc, hs, err, out, exitCode, exitBy>>
    /\ UNCHANGED <<iso, mode, schema, feed, record, records, broken, sigs>>

\* what the waiting write still has to hand to the pipe: the buffer first
Pending == buf \o direct

\* the pipe takes part of it and the write goes on waiting
WritePartial ==
    /\ Running /\ blocked /\ ~broken /\ Len(Pending) > 1
    /\ out' = Append(out, Head(Pending))
    /\ IF buf # <<>> THEN buf' = Tail(buf) /\ direct' = direct
                     ELSE buf' = buf /\ direct' = Tail(direct)
    /\ UNCHANGED <<iso, mode, schema, pc, hs, blocked, err, feed, record, records, broken, sigs,
                   exitCode, exitBy>>

\* the pipe takes the rest: print returns, and so does emit
WriteComplete ==
    /\ Running /\ blocked /\ ~broken
    /\ out' = out \o Pending
    /\ buf' = <<>>
    /\ direct' = <<>>
    /\ blocked' = FALSE
    /\ Resume
    /\ UNCHANGED <<iso, mode, schema, err, feed, record, records, broken, sigs, exitCode, exitBy>>

\* the waiting write fails with EPIPE: BrokenPipeError, sys.exit(0)
WriteBrokenPipe ==
    /\ Running /\ blocked /\ broken
    /\ Exit(0, buf, BrokenPipe)
    /\ direct' = <<>>
    /\ UNCHANGED <<iso, mode, schema, feed, record, records, broken, sigs>>

\* the downstream reader closes its end
ReaderClose ==
    /\ Running /\ ~broken
    /\ broken' = TRUE
    /\ UNCHANGED <<iso, mode, schema, pc, hs, blocked, err, feed, record, records, buf, direct, out,
                   sigs, exitCode, exitBy>>

(* --------------------------- handle_sigterm ---------------------------- *)

\* A signal arrives while the innermost frame is between two statements: the
\* handler starts on top of it.
Signal ==
    /\ Running /\ ~blocked /\ Len(sigs) < MaxSignals
    /\ sigs' = Append(sigs, [at |-> pc, depth |-> Len(hs), inWrite |-> FALSE])
    /\ hs' = Append(hs, "L32")
    /\ UNCHANGED <<iso, mode, schema, pc, blocked, err, feed, record, records, buf, direct, out,
                   broken, exitCode, exitBy>>

\* A signal arrives while the innermost frame waits in write(2): the handler runs
\* inside that write.  Its emit calls print on the writer that is writing: the
\* writer raises RuntimeError (reentrant call) and drops the handler's text; emit
\* catches only BrokenPipeError and the handler catches nothing, so line 33 is not
\* reached and the exception comes out of the interrupted emit.  What that emit
\* had buffered stays in the buffer; what it was writing directly is lost.
SignalInWrite ==
    /\ Running /\ blocked /\ Len(sigs) < MaxSignals
    /\ sigs' = Append(sigs, [at |-> pc, depth |-> Len(hs), inWrite |-> TRUE])
    /\ Raise(ReentrantCall, buf)
    /\ direct' = <<>>
    /\ UNCHANGED <<iso, mode, schema, feed, record, records, broken>>

\* line 33: sys.exit(0); SystemExit is no Exception, nothing catches it
HandlerExit ==
    /\ Running /\ ~blocked /\ hs # <<>> /\ Cur = "L33"
    /\ Exit(0, buf, Handler)
    /\ UNCHANGED <<iso, mode, schema, feed, record, records, direct, broken, sigs>>

(* --------------------------- run_live_stream --------------------------- *)

Main == Running /\ hs = <<>> /\ ~blocked

\* lines 49-51 and 138-140: import databento
Import ==
    /\ Main /\ pc \in {"L50", "L139"}
    /\ \/ Goto(IF pc = "L50" THEN "L55" ELSE "L144")
       \/ Goto(IF pc = "L50" THEN "L52" ELSE "L141")
    /\ UNCHANGED <<iso, mode, schema, feed, record, records, direct, broken, sigs>>

\* sys.exit(0) written for sys.exit(1)
SysExit0 ==
    /\ Main /\ pc \in {"L53", "L134", "L142", "L197"}
    /\ Exit(0, buf, SysExit)
    /\ UNCHANGED <<iso, mode, schema, feed, record, records, direct, broken, sigs>>

\* lines 53, 134, 142, 197: sys.exit(1)
SysExit1 ==
    /\ Main /\ pc \in {"L53", "L134", "L142", "L197"}
    /\ Exit(1, buf, SysExit)
    /\ UNCHANGED <<iso, mode, schema, feed, record, records, direct, broken, sigs>>

\* line 58: client = db.Live(key=api_key)
NewLive ==
    /\ Main /\ pc = "L58"
    /\ \/ Goto("L60")
       \/ Raise("invalid API key", buf)
    /\ UNCHANGED <<iso, mode, schema, feed, record, records, direct, broken, sigs>>

\* lines 60-65: client.subscribe(...)
Subscribe ==
    /\ Main /\ pc = "L60"
    /\ \/ Goto("L67")
       \/ Raise("subscription rejected", buf)
    /\ UNCHANGED <<iso, mode, schema, feed, record, records, direct, broken, sigs>>

\* line 71: for record in client: the next record, the end of the feed, or the
\* iterator raising
NextRecord ==
    /\ Main /\ pc = "L71"
    /\ \/ /\ Len(feed) < MaxRecords
          /\ \E r \in Deliverable(schema) :
                /\ feed' = Append(feed, r)
                /\ record' = r
          /\ Goto("L73")
       \/ /\ Goto("L130")
          /\ UNCHANGED <<feed, record>>
       \/ /\ Raise("connection reset", buf)
          /\ UNCHANGED <<feed, record>>
    /\ UNCHANGED <<iso, mode, schema, records, direct, broken, sigs>>

\* lines 73-125 up to the call of emit: dispatch on the type name and build the
\* event; an exception goes to line 127, an ignored record back to line 71
MapRecord ==
    /\ Main /\ pc = "L73"
    /\ LET m == LiveMap(record) IN
       IF ~m.ok THEN Raise(m.exc, buf)
       ELSE IF m = Nothing THEN Goto("L71")
       ELSE Goto("L76")
    /\ UNCHANGED <<iso, mode, schema, feed, record, records, direct, broken, sigs>>

\* the end of the script: the function has returned
Return ==
    /\ Main /\ pc = "L215"
    /\ Exit(0, buf, Returned)
    /\ UNCHANGED <<iso, mode, schema, feed, record, records, direct, broken, sigs>>

(* ---------------------------- run_historical --------------------------- *)

\* line 147: client = db.Historical(api_key)
NewHistorical ==
    /\ Main /\ pc = "L147"
    /\ \/ Goto("L159")
       \/ Raise("invalid API key", buf)
    /\ UNCHANGED <<iso, mode, schema, feed, record, records, direct, broken, sigs>>

\* lines 149-159: kwargs; int(limit) when a limit is given
CoerceLimit ==
    /\ Main /\ pc = "L159"
    /\ \E limit \in {"None", "100", "ten"} :
          IF limit = "ten"
          THEN Raise("invalid literal for int() with base 10: 'ten'", buf)
          ELSE Goto("L161")
    /\ UNCHANGED <<iso, mode, schema, feed, record, records, direct, broken, sigs>>

\* lines 161-163: data = client.timeseries.get_range(**kwargs); records = []
GetRange ==
    /\ Main /\ pc = "L161"
    /\ \/ /\ Goto("L187")
          /\ records' = <<>>
       \/ /\ Raise("422 query rejected", buf)
          /\ UNCHANGED records
    /\ UNCHANGED <<iso, mode, schema, feed, record, direct, broken, sigs>>

\* line 187: data.replay(collect_record): one call of the callback per record
\* (lines 165-185), the end of the range, or replay raising
Replay ==
    /\ Main /\ pc = "L187"
    /\ \/ /\ Len(feed) < MaxRecords
          /\ \E r \in Deliverable(schema) :
                /\ feed' = Append(feed, r)
                /\ record' = r
                /\ LET m == HistMap(r) IN
                   IF ~m.ok THEN Raise(m.exc, buf) /\ UNCHANGED records
                   ELSE IF m = Nothing THEN Goto("L187") /\ UNCHANGED records
                   ELSE Goto("L187") /\ records' = Append(records, m.ev)
       \/ /\ Goto("L189")
          /\ UNCHANGED <<feed, record, records>>
       \/ /\ Raise("connection reset", buf)
          /\ UNCHANGED <<feed, record, records>>
    /\ UNCHANGED <<iso, mode, schema, direct, broken, sigs>>

(* --------------------------------------------------------------------- *)

Next ==
    \/ Import
    \/ SysExit1
    \/ NewLive
    \/ Subscribe
    \/ NextRecord
    \/ MapRecord
    \/ Return
    \/ NewHistorical
    \/ CoerceLimit
    \/ GetRange
    \/ Replay
    \/ emit
    \/ WritePartial
    \/ WriteComplete
    \/ WriteBrokenPipe
    \/ ReaderClose
    \/ Signal
    \/ SignalInWrite
    \/ HandlerExit

Spec == Init /\ [][Next]_vars

(* ----------------------- format_timestamp alone ------------------------ *)

\* The arguments of a call: ints (the quarters of a microsecond, where the
\* rounding turns; a timestamp of 2023; the largest int64; the last second of
\* year 9999 and the first of year 10000; -1; the first second of year 1 and the
\* one before) and values that are no ints.
TsInputs ==
    {Ns(k * 250) : k \in 0..MaxTick}
    \cup {Ns(999999600),
          PyInt(1, 1, 700000000, 123456789),
          PyInt(1, 9, 223372036, 854775807),
          PyInt(1, 253, 402300799, 0),
          PyInt(1, 253, 402300800, 0),
          PyInt(-1, 0, 0, 1),
          PyInt(-1, 62, 135596800, 0),
          PyInt(-1, 62, 135596801, 0)}
    \cup {PyObj("None"), PyObj("2024-01-15T09:30:00Z"), PyObj("1.5")}

TsInit ==
    /\ mode = "live"
    /\ schema = "trades"
    /\ pc = "L40"
    /\ hs = <<>>
    /\ blocked = FALSE
    /\ err = ""
    /\ feed = <<>>
    /\ record \in {Rec("TradeMsg", [ts_event |-> t]) : t \in TsInputs}
    /\ records = <<>>
    /\ buf = <<>>
    /\ direct = <<>>
    /\ out = <<>>
    /\ broken = FALSE
    /\ sigs = <<>>
    /\ exitCode = -1
    /\ exitBy = ""
    /\ iso = NULL

\* lines 38-45: format_timestamp(record.ts_event) returns a string to its
\* caller, or raises
FormatTimestamp ==
    /\ pc = "L40"
    /\ LET r == format_timestamp(record.f.ts_event) IN
       IF Raises(r)
       THEN pc' = "raised" /\ err' = r.raise /\ iso' = iso
       ELSE pc' = "returned" /\ iso' = r /\ err' = err
    /\ UNCHANGED <<mode, schema, hs, blocked, feed, record, records, buf, direct, out, broken,
                   sigs, exitCode, exitBy>>

TsNext == FormatTimestamp

TsSpec == TsInit /\ [][TsNext]_vars

(* ============================ properties =============================== *)

\* the lines of the output stream that have been ended, in order
OutLines == SelectSeq(out, LAMBDA c : c.part = "nl")
LastLine == OutLines[Len(OutLines)]

IsStatus(c, m) == c.ev.type = "status" /\ c.ev.message = m

\* a run no signal and no broken pipe has touched
Undisturbed == sigs = <<>> /\ ~broken

\* the records the live loop is done with: all those delivered, but the one in hand
Processed ==
    IF pc \in {"L73", "L76", "L128"} THEN SubSeq(feed, 1, Len(feed) - 1) ELSE feed

\* what a record is expected to put on the output stream in live mode
ExpectedType(r) ==
    CASE r \in {TradeNoPrice, BarNoVolume} -> "error"
      [] r \in {TradeFull, TradeBare} -> "trade"
      [] r = BarFull -> "ohlcv"
      [] r = QuotePartial -> "quote"
      [] r \in {ErrorWith, ErrorBare} -> "error"
      [] r = SystemWith -> "status"
      [] r \in {QuoteEmpty, QuoteDepth, Heartbeat} -> "none"

RECURSIVE ExpectedLines(_, _)
ExpectedLines(rs, i) ==
    IF i > Len(rs) THEN <<>>
    ELSE (IF ExpectedType(rs[i]) = "none" THEN <<>> ELSE << <<i, ExpectedType(rs[i])>> >>)
         \o ExpectedLines(rs, i + 1)

\* the lines the records have put on the output stream: <<position in feed, type>>
RecordLines ==
    LET ls == SelectSeq(OutLines, LAMBDA c : c.rec > 0) IN
    [i \in 1..Len(ls) |-> <<ls[i].rec, ls[i].ev.type>>]

Faulting(r) == r \in {TradeNoPrice, BarNoVolume}

\* C1: in a live run that no signal and no broken pipe has touched, the lines the
\* records have produced are, in feed order, one line per processed record that
\* maps to an event and one error line in the place of each faulting record; a
\* faulting record's error line is the per-record one, and its exception never
\* reaches the session-level handler, so the records after it are processed.
C1_FaultIsolated ==
    (mode = "live" /\ Undisturbed) =>
        /\ RecordLines = ExpectedLines(Processed, 1)
        /\ \A i \in 1..Len(OutLines) :
              (OutLines[i].rec > 0 /\ Faulting(feed[OutLines[i].rec]))
                 => /\ OutLines[i].by = "L128"
                    /\ OutLines[i].ev = Error(RecordPrefix \o LiveMap(feed[OutLines[i].rec]).exc)
        /\ pc \in {"L133", "L134"} => err \in {"invalid API key", "subscription rejected",
                                              "connection reset"}
        /\ (pc = "exited" /\ feed # <<>>) =>
              /\ exitBy \in {Returned, SysExit}
              /\ exitBy = SysExit => LastLine.ev = Error("connection reset")
              /\ exitBy = Returned => IsStatus(LastLine, "disconnected")

\* C1 witness: [valid, faulting, valid] has yielded [event, error event, event]
C1_Witness ==
    /\ mode = "live" /\ Undisturbed /\ pc = "L71"
    /\ feed = <<TradeFull, TradeNoPrice, TradeBare>>
    /\ RecordLines = << <<1, "trade">>, <<2, "error">>, <<3, "trade">> >>

\* where the main flow is while the live loop streams (lines 71-128)
StreamingPcs == {"L71", "L73", "L76", "L128"}

\* C2: when the process has ended, the pipe being open, and a signal was
\* delivered while the live loop was streaming, the status is 0 and the last
\* line of the output stream is "shutting_down".
C2_SignalEndsStream ==
    (pc = "exited" /\ ~broken /\ mode = "live"
        /\ \E i \in 1..Len(sigs) : sigs[i].at \in StreamingPcs)
    => /\ exitCode = 0
       /\ OutLines # <<>>
       /\ LastLine.ev = ShuttingDown

\* the part of a line that follows part c of it
PartAfter(c) ==
    [c EXCEPT !.part = IF c.part = "head" THEN "text" ELSE "nl"]

\* the part of a line before part c of it, if it has one
HasPartBefore(c) == c.part = "nl" \/ (c.part = "text" /\ Big(c.ev))
PartBefore(c) ==
    [c EXCEPT !.part = IF c.part = "nl" THEN "text" ELSE "head"]

\* C3: the lines of the output stream are whole and never interleaved: each part
\* of a line that is on the stream is followed by the next part of the same line
\* (on the stream, or first in what the writer still holds), and preceded by the
\* part before it.
C3_LinesNotInterleaved ==
    \A i \in 1..Len(out) :
       /\ out[i].part # "nl" =>
             IF i < Len(out) THEN out[i + 1] = PartAfter(out[i])
             ELSE Pending # <<>> /\ Head(Pending) = PartAfter(out[i])
       /\ HasPartBefore(out[i]) => (i > 1 /\ out[i - 1] = PartBefore(out[i]))

\* C4: a process that ends because emit met the broken pipe ends with status 0,
\* and no line of the stream is an error event for the failed write.
C4_BrokenPipeExitsZero ==
    (pc = "exited" /\ exitBy = BrokenPipe) => exitCode = 0

\* the descriptions of the faults outside per-record processing
SessionFaults == {"invalid API key", "subscription rejected", "connection reset"}

LinesBy(p) == SelectSeq(OutLines, LAMBDA c : c.by = p)
LinesOf(type) == SelectSeq(OutLines, LAMBDA c : c.ev.type = type)
StatusLines(m) == SelectSeq(OutLines, LAMBDA c : IsStatus(c, m))

\* C5: in a live run that no signal and no broken pipe has touched, a fault in
\* creating the client, in subscribing or in the iteration takes the main flow to
\* the session-level handler and nowhere else; that handler emits one error
\* event carrying the fault's description, which is the last line of the stream:
\* no "disconnected" is on the stream, no "connected" or "streaming" either when
\* the fault came before the subscription was accepted; the status is 1.
C5_SessionFault ==
    (mode = "live" /\ Undisturbed) =>
        /\ err \in SessionFaults => pc \in {"L133", "L134", "exited"}
        /\ pc = "L133" => (err \in SessionFaults /\ LinesBy("L133") = <<>>)
        /\ pc = "L134" => Len(LinesBy("L133")) = 1
        /\ LinesBy("L133") # <<>> =>
              /\ Len(LinesBy("L133")) = 1
              /\ pc \in {"L134", "exited"}
              /\ LastLine.by = "L133"
              /\ LastLine.ev = Error(err)
              /\ StatusLines("disconnected") = <<>>
              /\ err \in {"invalid API key", "subscription rejected"} =>
                    (Len(OutLines) = 2 /\ IsStatus(OutLines[1], "connecting"))
              /\ pc = "exited" => (exitCode = 1 /\ exitBy = SysExit)

\* C5 witness: the iteration has raised after a record, and the process has ended
C5_Witness ==
    /\ mode = "live" /\ Undisturbed /\ pc = "exited"
    /\ feed # <<>> /\ err = "connection reset"
    /\ LastLine.ev = Error("connection reset")
    /\ exitCode = 1

\* C6: in a live run "connecting" is on the stream before the main flow acts on
\* the client; "connected" comes right after "connecting", and only when neither
\* the client nor the subscription has failed; "streaming" comes right after
\* "connected", and, no signal and no broken pipe having touched the run, nothing
\* else follows "connected"; every line a record has produced comes after
\* "streaming".
C6_LifecycleOrder ==
    mode = "live" =>
        /\ pc \in {"L58", "L60", "L67", "L68", "L71", "L73", "L76", "L128", "L130", "L133",
                   "L134", "L215"}
              => (OutLines # <<>> /\ OutLines[1].ev = StatusCtx("connecting"))
        /\ \A i \in 1..Len(OutLines) :
              /\ IsStatus(OutLines[i], "connected") =>
                    /\ i = 2 /\ IsStatus(OutLines[1], "connecting")
                    /\ err \notin {"invalid API key", "subscription rejected"}
                    /\ pc \notin {"L50", "L52", "L53", "L55", "L58", "L60"}
                    /\ Undisturbed =>
                          IF i < Len(OutLines) THEN IsStatus(OutLines[i + 1], "streaming")
                          ELSE pc = "L68"
              /\ IsStatus(OutLines[i], "streaming") =>
                    (i > 1 /\ IsStatus(OutLines[i - 1], "connected"))
              /\ (OutLines[i].rec > 0 \/ OutLines[i].by \in {"L76", "L128"}) =>
                    \E j \in 1..(i - 1) : IsStatus(OutLines[j], "streaming")

\* C6 witness: connecting, connected, streaming, then the first record's event
C6_Witness ==
    /\ mode = "live" /\ Len(OutLines) = 4
    /\ IsStatus(OutLines[1], "connecting") /\ IsStatus(OutLines[2], "connected")
    /\ IsStatus(OutLines[3], "streaming") /\ OutLines[4].rec = 1

\* C7 (state part): "disconnected" is on the stream at most once, written by
\* line 130, after no session-level error event and before no record's line; and
\* in a run that no signal and no broken pipe has touched, the main flow has then
\* returned: the process ends with status 0, "disconnected" being the last line.
C7_DisconnectedState ==
    mode = "live" =>
        /\ Len(StatusLines("disconnected")) <= 1
        /\ \A i \in 1..Len(OutLines) :
              IsStatus(OutLines[i], "disconnected") =>
                 /\ OutLines[i].by = "L130"
                 /\ \A j \in 1..Len(OutLines) :
                       /\ j < i => OutLines[j].by # "L133"
                       /\ j > i => OutLines[j].rec = 0
                 /\ Undisturbed =>
                       /\ i = Len(OutLines)
                       /\ pc \in {"L215", "exited"}
                       /\ pc = "exited" => (exitCode = 0 /\ exitBy = Returned)

\* C7 (step part): line 130 is reached by the main flow from the head of the loop
\* only, no exception being raised: by the iteration ending.
C7_DisconnectedStep ==
    (pc' = "L130" /\ pc # "L130") =>
        (pc = "L71" /\ hs = <<>> /\ ~blocked /\ err' = err /\ sigs' = sigs /\ feed' = feed)

\* C7: "disconnected" is emitted only when the iteration has ended, at most once,
\* no session-level fault before it and no record's line after it, and the
\* undisturbed session then returns with status 0.
C7_Disconnected == [](C7_DisconnectedState) /\ [][C7_DisconnectedStep]_vars

\* C7 witness: the feed has ended after a record and the process has returned
C7_Witness ==
    /\ mode = "live" /\ Undisturbed /\ pc = "exited" /\ feed # <<>>
    /\ IsStatus(LastLine, "disconnected") /\ exitCode = 0

\* what the records of a range are expected to put in the historical event: the
\* trades and the bars, in the order of delivery
ExpectedEvent(r) ==
    IF r.tag = "TradeMsg"
    THEN [type |-> "trade", ts |-> format_timestamp(r.f.ts_event),
          price |-> Rescale(r.f.price), size |-> r.f.size, symbol |-> Symbol]
    ELSE [type |-> "ohlcv", ts |-> format_timestamp(r.f.ts_event),
          open |-> Rescale(r.f.open), high |-> Rescale(r.f.high), low |-> Rescale(r.f.low),
          close |-> Rescale(r.f.close), volume |-> r.f.volume, symbol |-> Symbol]

ExpectedRecords ==
    LET kept == SelectSeq(feed, LAMBDA r : r.tag \in {"TradeMsg", "OHLCVMsg"}) IN
    [i \in 1..Len(kept) |-> ExpectedEvent(kept[i])]

\* every part of a line that has left emit: on the stream or held by the writer
Written == out \o buf \o direct

\* C8: in a historical run that no signal and no broken pipe has touched, no part
\* of a historical event is written before replay has completed, and once the
\* main flow has passed line 189 the stream is "fetching_historical" followed by
\* one historical event whose records are the mappings of the trade and bar
\* records of the range in delivery order, whose count is their number, and
\* which holds nothing of the other records; the process then ends with status 0.
C8_HistoricalEvent ==
    (mode = "historical" /\ Undisturbed) =>
        /\ Len(LinesOf("historical")) <= 1
        /\ pc \in {"L139", "L141", "L142", "L144", "L147", "L159", "L161", "L187"} =>
              \A i \in 1..Len(Written) : Written[i].ev.type # "historical"
        /\ (pc = "L215" \/ (pc = "exited" /\ exitBy = Returned)) =>
              /\ Len(OutLines) = 2
              /\ IsStatus(OutLines[1], "fetching_historical")
              /\ OutLines[2].ev.type = "historical"
              /\ OutLines[2].ev.records = ExpectedRecords
              /\ OutLines[2].ev.count = Len(ExpectedRecords)
              /\ pc = "exited" => exitCode = 0

\* C8 witness: a range of a bar, a record of another type and a bar has been
\* replayed and the process has ended
C8_Witness ==
    /\ mode = "historical" /\ Undisturbed /\ pc = "exited" /\ exitBy = Returned
    /\ feed = <<BarFull, Heartbeat, BarFull>>
    /\ LastLine.ev.type = "historical" /\ LastLine.ev.count = 2

\* C9: in a historical run that no signal and no broken pipe has touched, a fault
\* after "fetching_historical" takes the main flow to the handler of line 195 and
\* nowhere else; nothing of a historical event is ever written in that run, the
\* stream ends as "fetching_historical" followed by one error event carrying the
\* fault's description, and the status is 1.
C9_HistoricalFault ==
    (mode = "historical" /\ Undisturbed /\ err # "") =>
        /\ pc \in {"L196", "L197", "exited"}
        /\ \A i \in 1..Len(Written) : Written[i].ev.type # "historical"
        /\ pc = "L196" /\ ~blocked => Len(OutLines) = 1
        /\ pc \in {"L197", "exited"} =>
              /\ Len(OutLines) = 2
              /\ IsStatus(OutLines[1], "fetching_historical")
              /\ OutLines[2].ev = Error(err)
        /\ pc = "exited" => (exitCode = 1 /\ exitBy = SysExit)

\* C9 witness: the callback has raised on the second record of the range, after
\* the first was collected, and the process has ended
C9_Witness ==
    /\ mode = "historical" /\ Undisturbed /\ pc = "exited"
    /\ feed = <<TradeFull, TradeNoPrice>> /\ Len(records) = 1
    /\ LastLine.ev.type = "error" /\ exitCode = 1

\* C10: when the process has ended, the pipe being open, and a signal was
\* delivered at any point of the run, "shutting_down" is on the output stream and
\* the status is 0.
C10_SignalAlwaysShutsDown ==
    (pc = "exited" /\ ~broken /\ sigs # <<>>) =>
        /\ exitCode = 0
        /\ StatusLines("shutting_down") # <<>>

\* the statements that emit the error event of a fatal path
FatalPcs == {"L52", "L133", "L141", "L196"}

\* C11: a process that has ended has status 0 or 1, by its cause: 0 when the
\* main flow returned (the feed ended, the historical event was emitted), when
\* the signal handler exited or when emit met the broken pipe; 1 when a fatal
\* path called sys.exit(1); and in a run that no signal and no broken pipe has
\* touched the status is 1 exactly when the last line is the error event of a
\* fatal path.
C11_ExitCodeByCause ==
    pc = "exited" =>
        /\ exitCode \in {0, 1}
        /\ exitBy \in {Returned, Handler, BrokenPipe} => exitCode = 0
        /\ exitBy = SysExit => exitCode = 1
        /\ Undisturbed =>
              (exitCode = 1 <=> (OutLines # <<>> /\ LastLine.ev.type = "error"
                                                /\ LastLine.by \in FatalPcs))

\* the lines record i of the feed has put on the output stream
LinesOfRecord(i) == SelectSeq(OutLines, LAMBDA c : c.rec = i)

\* C12: in a live run that no signal and no broken pipe has touched, a processed
\* quote record without levels has put no line on the stream, neither an event
\* nor an error; a processed quote record with levels has put exactly one line
\* on it: the quote event of level zero, in which the fields that level lacks
\* (bid, ask_size) are null and the others carry its values.
C12_QuoteMapping ==
    (mode = "live" /\ Undisturbed) =>
        \A i \in 1..Len(Processed) :
           /\ (Processed[i].tag = "MBP1Msg" /\ Processed[i].f.levels = <<>>) =>
                 LinesOfRecord(i) = <<>>
           /\ Processed[i] = QuotePartial =>
                 /\ Len(LinesOfRecord(i)) = 1
                 /\ LinesOfRecord(i)[1].by = "L76"
                 /\ LinesOfRecord(i)[1].ev =
                       [type |-> "quote", ts |-> IsoString(1, <<0, 0>>, 2),
                        bid |-> NULL, ask |-> Some([int |-> 1, frac |-> 500000000]),
                        bid_size |-> Some(3), ask_size |-> NULL, symbol |-> "MES.FUT"]

\* C12 witness: a quote without levels, then a quote with levels, have been
\* processed, and the stream holds the one quote event of the second
C12_Witness ==
    /\ mode = "live" /\ Undisturbed /\ pc = "L71"
    /\ feed = <<QuoteEmpty, QuotePartial>>
    /\ RecordLines = << <<2, "quote">> >>
    /\ LastLine.ev.bid = NULL /\ LastLine.ev.ask_size = NULL

\* the type names the dispatch of lines 75-118 has a branch for
Dispatched == {"TradeMsg", "OHLCVMsg", "MBP1Msg", "ErrorMsg", "SystemMsg"}

\* C13 (state part): in a live run the emit of the loop is never reached with a
\* record in hand of a type the dispatch has no branch for; and, no signal
\* having been delivered, neither is the per-record handler, and nothing that
\* was ever written, on the stream or still held by the writer, is for such a
\* record.
C13_IgnoredState ==
    mode = "live" =>
        /\ pc = "L76" => record.tag \in Dispatched
        /\ sigs = <<>> =>
              /\ pc = "L128" => record.tag \in Dispatched
              /\ \A i \in 1..Len(Written) :
                    Written[i].rec > 0 => feed[Written[i].rec].tag \in Dispatched

\* C13 (step part): the main flow leaves line 73 with such a record in hand for
\* the head of the loop only, writing nothing and raising nothing.
C13_IgnoredStep ==
    (pc = "L73" /\ hs = <<>> /\ record.tag \notin Dispatched /\ pc' # pc) =>
        (pc' = "L71" /\ out' = out /\ buf' = buf /\ err' = err /\ exitCode' = exitCode)

\* C13: a live record of a type the dispatch does not name (a heartbeat, a
\* symbol mapping, a deeper book) produces no line at all, neither an event nor
\* an error event, and the loop goes on to the next record.
C13_IgnoredSilently == [](C13_IgnoredState) /\ [][C13_IgnoredStep]_vars

\* C13 witness: a symbol mapping record, then a bar, have been processed and the
\* only line the records have produced is the bar's
C13_Witness ==
    /\ mode = "live" /\ sigs = <<>> /\ pc = "L71"
    /\ feed = <<Heartbeat, BarFull>>
    /\ RecordLines = << <<2, "ohlcv">> >>

\* the instant a returned string parses back to, in nanoseconds
Parsed(s) == PyInt(s.sign, s.sec[1], s.sec[2], s.usec * 1000)

\* two instants in nanoseconds less than a microsecond apart: in the same second,
\* or b on the second that follows a's
WithinMicrosecond(a, b) ==
    LET zero(x) == x.hi = 0 /\ x.mid = 0
        d == IF zero(a) /\ zero(b) THEN a.sign * a.lo - b.sign * b.lo ELSE a.lo - b.lo IN
    \/ /\ a.hi = b.hi /\ a.mid = b.mid
       /\ (a.sign = b.sign \/ (zero(a) /\ zero(b)))
       /\ d < 1000 /\ -d < 1000
    \/ /\ a.sign = b.sign /\ b.lo = 0 /\ Scale - a.lo < 1000
       /\ IF a.mid = Scale - 1 THEN b.hi = a.hi + 1 /\ b.mid = 0
                               ELSE b.hi = a.hi /\ b.mid = a.mid + 1

Without(r, a) == Rec(r.tag, [k \in (DOMAIN r.f) \ {a} |-> r.f[k]])

\* C15: in a live run that no signal and no broken pipe has touched, a processed
\* trade without action and side has put one line on the stream, the trade
\* event with both fields null; a processed trade without price, or bar without
\* volume, has put one line on it, the per-record error event naming the
\* attribute, and no trade or ohlcv event; and whatever trade or bar is in hand
\* at line 73, the same record without price or size (open, high, low, close or
\* volume) would raise, and without action or side would map to an event with
\* that field null.  (That the loop goes on after the error event is C1.)
C15_RequiredAndOptional ==
    (mode = "live" /\ Undisturbed) =>
        /\ \A i \in 1..Len(Processed) :
              /\ Processed[i] = TradeBare =>
                    /\ Len(LinesOfRecord(i)) = 1
                    /\ LinesOfRecord(i)[1].by = "L76"
                    /\ LinesOfRecord(i)[1].ev =
                          [type |-> "trade", ts |-> IsoString(1, <<0, 0>>, 3),
                           price |-> [int |-> 0, frac |-> 250000000], size |-> 1,
                           symbol |-> "MES.FUT", action |-> NULL, side |-> NULL]
              /\ Processed[i] = TradeNoPrice =>
                    /\ Len(LinesOfRecord(i)) = 1
                    /\ LinesOfRecord(i)[1].by = "L128"
                    /\ LinesOfRecord(i)[1].ev =
                          Error("Record processing error: 'TradeMsg' object has no attribute 'price'")
              /\ Processed[i] = BarNoVolume =>
                    /\ Len(LinesOfRecord(i)) = 1
                    /\ LinesOfRecord(i)[1].by = "L128"
                    /\ LinesOfRecord(i)[1].ev =
                          Error("Record processing error: 'OHLCVMsg' object has no attribute 'volume'")
        /\ (pc = "L73" /\ record.tag = "TradeMsg") =>
              /\ \A a \in {"price", "size"} : ~LiveMap(Without(record, a)).ok
              /\ \A a \in {"action", "side"} :
                    ("price" \in DOMAIN record.f) =>
                       /\ LiveMap(Without(record, a)).ok
                       /\ LiveMap(Without(record, a)).ev.type = "trade"
                       /\ LiveMap(Without(record, a)).ev[a] = NULL
        /\ (pc = "L73" /\ record.tag = "OHLCVMsg") =>
              \A a \in {"open", "high", "low", "close", "volume"} :
                 ~LiveMap(Without(record, a)).ok

\* C15 witness: a trade without action and side, a trade without price and a
\* full trade have yielded a trade event, an error event and a trade event
C15_Witness ==
    /\ mode = "live" /\ Undisturbed /\ pc = "L71"
    /\ feed = <<TradeBare, TradeNoPrice, TradeFull>>
    /\ RecordLines = << <<1, "trade">>, <<2, "error">>, <<3, "trade">> >>
    /\ LinesOfRecord(1)[1].ev.action = NULL

\* C16 (state part): in a live run that no signal and no broken pipe has touched,
\* a processed error notice has put one line on the stream, written by the emit
\* of the dispatch: the error event whose message is the notice's err, or
\* "Unknown error" when it has none; and the session-level handler is reached
\* by a session fault only: a process that exits with status 1 after a record
\* was delivered does so for the iteration having raised.
C16_ErrorNoticeState ==
    (mode = "live" /\ Undisturbed) =>
        /\ \A i \in 1..Len(Processed) :
              Processed[i].tag = "ErrorMsg" =>
                 /\ Len(LinesOfRecord(i)) = 1
                 /\ LinesOfRecord(i)[1].by = "L76"
                 /\ Processed[i] = ErrorWith => LinesOfRecord(i)[1].ev = Error("gateway")
                 /\ Processed[i] = ErrorBare => LinesOfRecord(i)[1].ev = Error("Unknown error")
        /\ pc \in {"L133", "L134"} => err \in SessionFaults
        /\ (pc = "exited" /\ exitBy = SysExit /\ feed # <<>>) =>
              LastLine.ev = Error("connection reset")

\* C16 (step part): with an error notice in hand the main flow leaves line 73 for
\* the emit of the dispatch, and leaves that emit, the pipe being open and no
\* signal delivered, for the head of the loop.
C16_ErrorNoticeStep ==
    /\ (pc = "L73" /\ hs = <<>> /\ record.tag = "ErrorMsg" /\ pc' # pc) => pc' = "L76"
    /\ (pc = "L76" /\ record.tag = "ErrorMsg" /\ pc' # pc /\ Undisturbed') => pc' = "L71"

\* C16: a provider error notice is mapped to one error event carrying its err
\* field, or "Unknown error" in its absence, and does not take the session to
\* the Error state: the loop goes on to the next record.
C16_ErrorNotice == [](C16_ErrorNoticeState) /\ [][C16_ErrorNoticeStep]_vars

\* C16 witness: an error notice without err, then a system notice, have been
\* processed: the placeholder's error event is followed by the notice's status
C16_Witness ==
    /\ mode = "live" /\ Undisturbed /\ pc = "L71"
    /\ feed = <<ErrorBare, SystemWith>>
    /\ RecordLines = << <<1, "error">>, <<2, "status">> >>
    /\ LinesOfRecord(1)[1].ev.message = "Unknown error"

\* C17: whatever signals are delivered, and whenever, the status "shutting_down"
\* is on the output stream at most once.
C17_ShutdownOnce == Len(StatusLines("shutting_down")) <= 1

\* C18: in a live run each record of the feed has put at most one line on the
\* output stream, an event or a per-record error event, never both, and the
\* lines of the records follow the order of the feed.
C18_OneLinePerRecord ==
    mode = "live" =>
        /\ \A i \in 1..Len(feed) : Len(LinesOfRecord(i)) <= 1
        /\ \A j \in 1..(Len(RecordLines) - 1) : RecordLines[j][1] <= RecordLines[j + 1][1]

\* the lines of the other mode: none by a live run, none by a historical run
NoLineOfOtherMode ==
    /\ mode = "live" =>
          \A i \in 1..Len(Written) :
             /\ Written[i].ev.type # "historical"
             /\ ~IsStatus(Written[i], "fetching_historical")
    /\ mode = "historical" =>
          \A i \in 1..Len(Written) :
             /\ Written[i].ev.type \notin {"trade", "ohlcv", "quote"}
             /\ \A m \in {"connecting", "connected", "streaming", "disconnected"} :
                   ~IsStatus(Written[i], m)

\* "fetching_historical" followed by one historical event or one error event
TwoHistoricalLines ==
    /\ Len(OutLines) = 2
    /\ IsStatus(OutLines[1], "fetching_historical")
    /\ OutLines[2].ev.type \in {"historical", "error"}

\* C19 as claimed: the modes never mix their lines, and a historical run that no
\* signal and no broken pipe has touched ends with exactly two lines on the
\* stream, "fetching_historical" and one historical or error event.
C19_ModesNeverMix ==
    /\ NoLineOfOtherMode
    /\ (mode = "historical" /\ Undisturbed /\ pc = "exited") => TwoHistoricalLines

\* C19 amended: the modes never mix their lines, and a historical run that no
\* signal and no broken pipe has touched ends with a stream that is either the
\* one error event of line 141 (the provider package is missing), or
\* "fetching_historical" followed by one historical or error event.
C19_ModesNeverMixAmended ==
    /\ NoLineOfOtherMode
    /\ (mode = "historical" /\ Undisturbed /\ pc = "exited") =>
          IF LinesBy("L141") # <<>>
          THEN /\ Len(OutLines) = 1
               /\ OutLines[1].ev = Error(NotInstalled)
               /\ exitCode = 1
          ELSE TwoHistoricalLines

\* C19 witness: a historical run has replayed two trades and ended with its two
\* lines on the stream
C19_Witness ==
    /\ mode = "historical" /\ Undisturbed /\ pc = "exited"
    /\ feed = <<TradeFull, TradeBare>>
    /\ Len(OutLines) = 2 /\ LastLine.ev.type = "historical" /\ LastLine.ev.count = 2

=============================================================================
